---- MODULE Spec2Model ----
(***************************************************************************)
(* Event handlers of ControlWidget and PageControlWidget                   *)
(* (spyder/plugins/ipythonconsole/widgets/control.py).                      *)
(*                                                                         *)
(* One action per Qt event handler.  Every handler appends the calls it    *)
(* makes on its collaborators (signals, base-class handlers, the desktop   *)
(* URL service, the help mixin) to `effects`, in program order; `ev`       *)
(* records the event that was delivered and the values the handler read.   *)
(***************************************************************************)
EXTENDS Integers, Sequences, FiniteSets, TLC

VARIABLES
    anchor,              \* ControlWidget.anchor
    current_prompt_pos,  \* ControlWidget.current_prompt_pos
    help_enabled,        \* ControlWidget.help_enabled (GetHelpMixin attribute)
    override_cursors,    \* QApplication's stack of override cursors
    page_visible,        \* PageControlWidget.isVisible()
    effects,             \* calls made by the handler of the last event, in order
    ev,                  \* the last event delivered and what its handler read
    last_pos,            \* position of the most recent ControlWidget mouse-move
    phase,               \* "init" | "moved" | "opened": what last wrote anchor
    focus_balance,       \* focus_changed emissions minus focus events delivered
    opens_since_hover    \* URLs opened since the last move over an anchor

vars == <<anchor, current_prompt_pos, help_enabled, override_cursors,
          page_visible, effects, ev, last_pos, phase, focus_balance,
          opens_since_hover>>

---------------------------------------------------------------------------
(* Bounds *)

MaxPos == 2        \* mouse positions 0..MaxPos
MaxOverride == 3   \* depth of the override-cursor stack that is explored
MaxCount == 2      \* the history counters saturate here
MaxLen == 1        \* length of the names get_last_obj returns
MaxPrompt == 1     \* parent._prompt_pos ranges over 0..MaxPrompt

---------------------------------------------------------------------------
(* Python values: None, str (a tuple of characters), bool *)

None == [t |-> "NoneType", v |-> <<>>]
Str(s) == [t |-> "str", v |-> s]
PyTrue == [t |-> "bool", v |-> <<"True">>]
PyFalse == [t |-> "bool", v |-> <<>>]

\* Python truth value of None / str / bool
Truthy(x) == x.v # <<>>

Digits == {"1"}
Chars == {"1", "f"}

\* str.isdigit(): non-empty and every character a digit
isdigit(x) == Len(x.v) > 0 /\ \A i \in DOMAIN x.v : x.v[i] \in Digits

Strs == {Str(s) : s \in UNION {[1..n -> Chars] : n \in 0..MaxLen}}

\* what get_current_line_to_cursor returns: an empty line, or some text
Lines == {Str(<<>>), Str(<<"f">>)}

Sat(n) == IF n > MaxCount THEN MaxCount
          ELSE IF n < -MaxCount THEN -MaxCount ELSE n

---------------------------------------------------------------------------
(* Collaborators *)

Emit(sig, arg) == [op |-> "emit", name |-> sig, arg |-> arg]
Call(fn, arg) == [op |-> "call", name |-> fn, arg |-> arg]
Set(attr, arg) == [op |-> "set", name |-> attr, arg |-> arg]
Super(method) == [op |-> "super", name |-> method, arg |-> None]

Times(seq, e) == Cardinality({i \in DOMAIN seq : seq[i] = e})
TimesOp(seq, o, n) ==
    Cardinality({i \in DOMAIN seq : seq[i].op = o /\ seq[i].name = n})

Keys == {"Key_ParenLeft", "Key_Slash", "Key_A"}

\* the text restore_keyevent reports for a key
TextOf(key) ==
    IF key = "Key_ParenLeft" THEN Str(<<"(">>)
    ELSE IF key = "Key_Slash" THEN Str(<<"/">>)
    ELSE Str(<<"a">>)

PointingHandCursor == Str(<<"PointingHandCursor">>)
ArrowCursor == Str(<<"ArrowCursor">>)

UrlA == Str(<<"a">>)
UrlB == Str(<<"b">>)

\* QTextEdit.anchorAt: the href under the position, "" where there is none
anchorAt(pos) ==
    IF pos % 3 = 0 THEN Str(<<>>)
    ELSE IF pos % 3 = 1 THEN UrlA ELSE UrlB

\* QApplication.setOverrideCursor / restoreOverrideCursor
setOverrideCursor(stack, shape) == Append(stack, shape)
restoreOverrideCursor(stack) ==
    IF stack = <<>> THEN stack ELSE SubSeq(stack, 1, Len(stack) - 1)

NoEvent ==
    [widget |-> "none", kind |-> "none", key |-> "none", pos |-> -1,
     selected |-> FALSE, reading |-> FALSE, help_enabled |-> FALSE,
     visible |-> FALSE, prompt_pos |-> -1, line |-> None, last_obj |-> None,
     text |-> None, anchor_before |-> None]

---------------------------------------------------------------------------
Init ==
    /\ anchor = None
    /\ current_prompt_pos = -1
    /\ help_enabled = FALSE
    /\ override_cursors = <<>>
    /\ page_visible = FALSE
    /\ effects = <<>>
    /\ ev = NoEvent
    /\ last_pos = -1
    /\ phase = "init"
    /\ focus_balance = 0
    /\ opens_since_hover = 0

---------------------------------------------------------------------------
(* Bookkeeping done at every delivery: the event, and the history the      *)
(* properties below are stated on.  e is the event with what was read.     *)

Observe(e) ==
    LET opened == TimesOp(effects', "call", "QDesktopServices.openUrl") IN
    /\ ev' = [e EXCEPT !.anchor_before = anchor]
    /\ last_pos' = IF e.kind = "mouseMove" THEN e.pos ELSE last_pos
    /\ phase' = IF e.kind = "mouseMove" THEN "moved"
                ELSE IF opened > 0 THEN "opened" ELSE phase
    /\ focus_balance' =
           Sat(focus_balance + Times(effects', Emit("focus_changed", None))
               - IF e.kind \in {"focusIn", "focusOut"} THEN 1 ELSE 0)
    /\ opens_since_hover' =
           IF e.kind = "mouseMove" /\ Truthy(anchorAt(e.pos)) THEN 0
           ELSE Sat(opens_since_hover + opened)

Event(w, k) == [NoEvent EXCEPT !.widget = w, !.kind = k]

---------------------------------------------------------------------------
(* ControlWidget *)

\* mutant: the text is inserted only when no help was requested
key_paren_left_no_insert(pre, text, prompt_pos, line, last_obj) ==
    /\ current_prompt_pos' = prompt_pos
    /\ effects' =
          pre \o <<Set("current_prompt_pos", None),
                   Call("get_current_line_to_cursor", None)>>
              \o (IF Truthy(line)
                  THEN <<Call("get_last_obj", None)>>
                       \o (IF Truthy(last_obj) /\ ~isdigit(last_obj)
                           THEN <<Call("show_object_info", last_obj)>>
                           ELSE <<Call("insert_text", text)>>)
                  ELSE <<Call("insert_text", text)>>)

\* _key_paren_left(text); pre is what the caller has done so far
key_paren_left(pre, text, prompt_pos, line, last_obj) ==
    /\ current_prompt_pos' = prompt_pos
    /\ effects' =
          pre \o <<Set("current_prompt_pos", None),
                   Call("get_current_line_to_cursor", None)>>
              \o (IF Truthy(line)
                  THEN <<Call("get_last_obj", None)>>
                       \o (IF Truthy(last_obj) /\ ~isdigit(last_obj)
                           THEN <<Call("show_object_info", last_obj)>>
                           ELSE <<>>)
                  ELSE <<>>)
              \o <<Call("insert_text", text)>>

\* mutant: the event is forwarded to the base class as well
ControlWidget_showEvent_forwards ==
    /\ effects' = <<Emit("visibility_changed", PyTrue), Super("showEvent")>>
    /\ UNCHANGED <<anchor, current_prompt_pos, override_cursors>>

ControlWidget_showEvent ==
    /\ effects' = <<Emit("visibility_changed", PyTrue)>>
    /\ UNCHANGED <<anchor, current_prompt_pos, override_cursors>>

\* mutant: the parent's _reading state is not consulted
ControlWidget_keyPressEvent_ignores_reading(key, selected, reading, prompt_pos, line, last_obj) ==
    /\ IF key = "Key_ParenLeft" /\ ~selected /\ help_enabled
       THEN key_paren_left(<<Call("_key_paren_left", TextOf(key))>>,
                           TextOf(key), prompt_pos, line, last_obj)
       ELSE /\ effects' = <<Call("QTextEdit.keyPressEvent", TextOf(key))>>
            /\ UNCHANGED current_prompt_pos
    /\ UNCHANGED <<anchor, override_cursors>>

ControlWidget_keyPressEvent(key, selected, reading, prompt_pos, line, last_obj) ==
    /\ IF key = "Key_ParenLeft" /\ ~selected /\ help_enabled /\ ~reading
       THEN key_paren_left(<<Call("_key_paren_left", TextOf(key))>>,
                           TextOf(key), prompt_pos, line, last_obj)
       ELSE /\ effects' = <<Call("QTextEdit.keyPressEvent", TextOf(key))>>
            /\ UNCHANGED current_prompt_pos
    /\ UNCHANGED <<anchor, override_cursors>>

\* mutant: the notification is sent after the base class has handled the event
ControlWidget_focusInEvent_late ==
    /\ effects' = <<Super("focusInEvent"), Emit("focus_changed", None)>>
    /\ UNCHANGED <<anchor, current_prompt_pos, override_cursors>>

ControlWidget_focusInEvent ==
    /\ effects' = <<Emit("focus_changed", None), Super("focusInEvent")>>
    /\ UNCHANGED <<anchor, current_prompt_pos, override_cursors>>

ControlWidget_focusOutEvent ==
    /\ effects' = <<Emit("focus_changed", None), Super("focusOutEvent")>>
    /\ UNCHANGED <<anchor, current_prompt_pos, override_cursors>>

\* mutant: anchor is only written when the hit-test finds a link
ControlWidget_mouseMoveEvent_keeps_anchor(pos) ==
    /\ Truthy(anchorAt(pos)) => Len(override_cursors) < MaxOverride
    /\ anchor' = IF Truthy(anchorAt(pos)) THEN anchorAt(pos) ELSE anchor
    /\ IF Truthy(anchorAt(pos))
       THEN /\ override_cursors' =
                   setOverrideCursor(override_cursors, PointingHandCursor)
            /\ effects' = <<Call("anchorAt", None),
                            Call("QApplication.setOverrideCursor", PointingHandCursor),
                            Super("mouseMoveEvent")>>
       ELSE /\ override_cursors' = restoreOverrideCursor(override_cursors)
            /\ effects' = <<Call("anchorAt", None),
                            Call("QApplication.restoreOverrideCursor", None),
                            Super("mouseMoveEvent")>>
    /\ UNCHANGED current_prompt_pos

ControlWidget_mouseMoveEvent(pos) ==
    /\ Truthy(anchorAt(pos)) => Len(override_cursors) < MaxOverride
    /\ anchor' = anchorAt(pos)
    /\ IF Truthy(anchor')
       THEN /\ override_cursors' =
                   setOverrideCursor(override_cursors, PointingHandCursor)
            /\ effects' = <<Call("anchorAt", None),
                            Call("QApplication.setOverrideCursor", PointingHandCursor),
                            Super("mouseMoveEvent")>>
       ELSE /\ override_cursors' = restoreOverrideCursor(override_cursors)
            /\ effects' = <<Call("anchorAt", None),
                            Call("QApplication.restoreOverrideCursor", None),
                            Super("mouseMoveEvent")>>
    /\ UNCHANGED current_prompt_pos

\* mutant: falls through to the base class after opening the link
ControlWidget_mouseReleaseEvent_falls_through ==
    /\ IF Truthy(anchor)
       THEN /\ Len(override_cursors) < MaxOverride
            /\ effects' = <<Call("QDesktopServices.openUrl", anchor),
                            Call("QApplication.setOverrideCursor", ArrowCursor),
                            Super("mouseReleaseEvent")>>
            /\ override_cursors' = setOverrideCursor(override_cursors, ArrowCursor)
            /\ anchor' = None
       ELSE /\ effects' = <<Super("mouseReleaseEvent")>>
            /\ UNCHANGED <<anchor, override_cursors>>
    /\ UNCHANGED current_prompt_pos

\* mutant: anchor is not cleared after the link was opened
ControlWidget_mouseReleaseEvent_no_clear ==
    /\ IF Truthy(anchor)
       THEN /\ Len(override_cursors) < MaxOverride
            /\ effects' = <<Call("QDesktopServices.openUrl", anchor),
                            Call("QApplication.setOverrideCursor", ArrowCursor)>>
            /\ override_cursors' = setOverrideCursor(override_cursors, ArrowCursor)
            /\ UNCHANGED anchor
       ELSE /\ effects' = <<Super("mouseReleaseEvent")>>
            /\ UNCHANGED <<anchor, override_cursors>>
    /\ UNCHANGED current_prompt_pos

ControlWidget_mouseReleaseEvent ==
    /\ IF Truthy(anchor)
       THEN /\ Len(override_cursors) < MaxOverride
            /\ effects' = <<Call("QDesktopServices.openUrl", anchor),
                            Call("QApplication.setOverrideCursor", ArrowCursor)>>
            /\ override_cursors' = setOverrideCursor(override_cursors, ArrowCursor)
            /\ anchor' = None
       ELSE /\ effects' = <<Super("mouseReleaseEvent")>>
            /\ UNCHANGED <<anchor, override_cursors>>
    /\ UNCHANGED current_prompt_pos

---------------------------------------------------------------------------
(* PageControlWidget: it has no anchor, prompt position or cursor code *)

PageControlWidget_showEvent ==
    /\ effects' = <<Emit("visibility_changed", PyTrue)>>
    /\ UNCHANGED <<anchor, current_prompt_pos, override_cursors>>

\* mutant: the slash opens the find widget whether or not the pager is shown
PageControlWidget_keyPressEvent_any_slash(key) ==
    /\ IF key = "Key_Slash"
       THEN effects' = <<Emit("show_find_widget", None)>>
       ELSE effects' = <<Call("QTextEdit.keyPressEvent", TextOf(key))>>
    /\ UNCHANGED <<anchor, current_prompt_pos, override_cursors>>

PageControlWidget_keyPressEvent(key) ==
    /\ IF key = "Key_Slash" /\ page_visible
       THEN effects' = <<Emit("show_find_widget", None)>>
       ELSE effects' = <<Call("QTextEdit.keyPressEvent", TextOf(key))>>
    /\ UNCHANGED <<anchor, current_prompt_pos, override_cursors>>

PageControlWidget_focusInEvent ==
    /\ effects' = <<Emit("focus_changed", None), Super("focusInEvent")>>
    /\ UNCHANGED <<anchor, current_prompt_pos, override_cursors>>

PageControlWidget_focusOutEvent ==
    /\ effects' = <<Emit("focus_changed", None), Super("focusOutEvent")>>
    /\ UNCHANGED <<anchor, current_prompt_pos, override_cursors>>

---------------------------------------------------------------------------
(* Delivery of the events by Qt, and the owner of the widgets *)

CWShow ==
    /\ ControlWidget_showEvent
    /\ Observe(Event("ControlWidget", "show"))
    /\ UNCHANGED <<help_enabled, page_visible>>

\* What the handler reads is drawn here.  Only a left parenthesis gets past
\* the first test of keyPressEvent, and get_last_obj is only called on a
\* non-empty line: what is never read is not enumerated.
CWKeyPress ==
    \E key \in Keys :
    \E selected \in IF key = "Key_ParenLeft" THEN BOOLEAN ELSE {FALSE},
       reading \in IF key = "Key_ParenLeft" THEN BOOLEAN ELSE {FALSE},
       prompt_pos \in IF key = "Key_ParenLeft" THEN 0..MaxPrompt ELSE {0},
       line \in IF key = "Key_ParenLeft" THEN Lines ELSE {Str(<<>>)} :
    \E last_obj \in IF Truthy(line) THEN Strs \cup {None} ELSE {None} :
        /\ ControlWidget_keyPressEvent(key, selected, reading, prompt_pos,
                                       line, last_obj)
        /\ LET ran == TimesOp(effects', "call", "_key_paren_left") > 0 IN
           Observe([Event("ControlWidget", "keyPress") EXCEPT
                      !.key = key, !.text = TextOf(key),
                      !.selected = selected, !.reading = reading,
                      !.help_enabled = help_enabled,
                      !.prompt_pos = IF ran THEN prompt_pos ELSE -1,
                      !.line = IF ran THEN line ELSE None,
                      !.last_obj = IF ran /\ Truthy(line) THEN last_obj ELSE None])
        /\ UNCHANGED <<help_enabled, page_visible>>

CWFocusIn ==
    /\ ControlWidget_focusInEvent
    /\ Observe(Event("ControlWidget", "focusIn"))
    /\ UNCHANGED <<help_enabled, page_visible>>

CWFocusOut ==
    /\ ControlWidget_focusOutEvent
    /\ Observe(Event("ControlWidget", "focusOut"))
    /\ UNCHANGED <<help_enabled, page_visible>>

CWMouseMove ==
    \E pos \in 0..MaxPos :
        /\ ControlWidget_mouseMoveEvent(pos)
        /\ Observe([Event("ControlWidget", "mouseMove") EXCEPT !.pos = pos])
        /\ UNCHANGED <<help_enabled, page_visible>>

CWMouseRelease ==
    /\ ControlWidget_mouseReleaseEvent
    /\ Observe(Event("ControlWidget", "mouseRelease"))
    /\ UNCHANGED <<help_enabled, page_visible>>

\* Qt marks the widget visible before it delivers the show event
PageShow ==
    /\ page_visible' = TRUE
    /\ PageControlWidget_showEvent
    /\ Observe([Event("PageControlWidget", "show") EXCEPT !.visible = TRUE])
    /\ UNCHANGED help_enabled

PageKeyPress ==
    \E key \in Keys :
        /\ PageControlWidget_keyPressEvent(key)
        /\ Observe([Event("PageControlWidget", "keyPress") EXCEPT
                      !.key = key, !.text = TextOf(key),
                      !.visible = page_visible])
        /\ UNCHANGED <<help_enabled, page_visible>>

PageFocusIn ==
    /\ PageControlWidget_focusInEvent
    /\ Observe(Event("PageControlWidget", "focusIn"))
    /\ UNCHANGED <<help_enabled, page_visible>>

PageFocusOut ==
    /\ PageControlWidget_focusOutEvent
    /\ Observe(Event("PageControlWidget", "focusOut"))
    /\ UNCHANGED <<help_enabled, page_visible>>

\* The pager is hidden by its owner; hideEvent is not reimplemented
PageHide ==
    /\ page_visible
    /\ page_visible' = FALSE
    /\ UNCHANGED <<anchor, current_prompt_pos, help_enabled, override_cursors,
                   effects, ev, last_pos, phase, focus_balance,
                   opens_since_hover>>

\* The owner switches the help feature that keyPressEvent consults
SetHelpEnabled ==
    /\ help_enabled' = ~help_enabled
    /\ UNCHANGED <<anchor, current_prompt_pos, override_cursors, page_visible,
                   effects, ev, last_pos, phase, focus_balance,
                   opens_since_hover>>

Next ==
    \/ CWShow
    \/ CWKeyPress
    \/ CWFocusIn
    \/ CWFocusOut
    \/ CWMouseMove
    \/ CWMouseRelease
    \/ PageShow
    \/ PageKeyPress
    \/ PageFocusIn
    \/ PageFocusOut
    \/ PageHide
    \/ SetHelpEnabled

Spec == Init /\ [][Next]_vars

---------------------------------------------------------------------------
(* Properties *)

IsFocus(k) == k \in {"focusIn", "focusOut"}
OnControl(k) == ev.widget = "ControlWidget" /\ ev.kind = k
OnPage(k) == ev.widget = "PageControlWidget" /\ ev.kind = k
Opened == TimesOp(effects, "call", "QDesktopServices.openUrl")
ForwardedRelease == Times(effects, Super("mouseReleaseEvent"))
ForwardedKey == TimesOp(effects, "call", "QTextEdit.keyPressEvent")
HelperRan == TimesOp(effects, "call", "_key_paren_left")
HelpRequested == TimesOp(effects, "call", "show_object_info")
Position(seq, o, n) == {i \in DOMAIN seq : seq[i].op = o /\ seq[i].name = n}

\* C1: anchor is None (construction, or a link was opened, and no mouse-move
\* since) or the result of anchorAt at the position of the most recent
\* mouse-move; every mouse-move overwrites it, and key-press, focus and show
\* events leave it as it was.
AnchorReflectsLastHitTest ==
    /\ anchor = IF phase = "moved" THEN anchorAt(last_pos) ELSE None
    /\ OnControl("mouseMove") => anchor = anchorAt(ev.pos)
    /\ ev.kind \in {"keyPress", "focusIn", "focusOut", "show"}
           => anchor = ev.anchor_before

AnchorKeptOverKeyPress ==
    /\ OnControl("keyPress")
    /\ phase = "moved"
    /\ Truthy(anchor)

\* C2: a mouse-release on ControlWidget either opens the URL held in anchor
\* (once, without forwarding the event) when anchor is a non-empty string,
\* or forwards the event to the base class (once, opening nothing).
MouseReleaseOpensOrForwards ==
    OnControl("mouseRelease") =>
        IF Truthy(ev.anchor_before)
        THEN /\ Times(effects, Call("QDesktopServices.openUrl", ev.anchor_before)) = 1
             /\ Opened = 1
             /\ ForwardedRelease = 0
        ELSE /\ Opened = 0
             /\ ForwardedRelease = 1

MouseReleaseOpenedLink ==
    /\ OnControl("mouseRelease")
    /\ Truthy(ev.anchor_before)
    /\ Opened = 1

\* C3: opening a link clears anchor, so at most one URL is opened between two
\* mouse-moves over an anchor, and a further mouse-release in between opens
\* nothing and is forwarded to the base class.
LinkOpenedOncePerHover ==
    /\ opens_since_hover <= 1
    /\ (OnControl("mouseRelease") /\ Opened > 0) => anchor = None
    /\ (OnControl("mouseRelease") /\ opens_since_hover >= 1 /\ Opened = 0)
           => ForwardedRelease = 1

SecondReleaseAfterOpen ==
    /\ OnControl("mouseRelease")
    /\ opens_since_hover = 1
    /\ Opened = 0
    /\ ForwardedRelease = 1

\* C4: after a mouse-move over an anchor the application cursor is the
\* pointing hand; after a mouse-move over no anchor no override cursor of
\* this widget is left; either way the event went to the base class.
CursorFollowsHitTest ==
    OnControl("mouseMove") =>
        /\ Times(effects, Super("mouseMoveEvent")) = 1
        /\ IF Truthy(anchorAt(ev.pos))
           THEN /\ override_cursors # <<>>
                /\ override_cursors[Len(override_cursors)] = PointingHandCursor
           ELSE override_cursors = <<>>

\* C5: on a ControlWidget key-press _key_paren_left runs exactly when the key
\* is '(' with no selection, help enabled and the parent not reading; in
\* every other case the event goes to QTextEdit.keyPressEvent; never both,
\* never neither.
KeyPressDispatch ==
    OnControl("keyPress") =>
        IF /\ ev.key = "Key_ParenLeft"
           /\ ~ev.selected
           /\ ev.help_enabled
           /\ ~ev.reading
        THEN HelperRan = 1 /\ ForwardedKey = 0
        ELSE HelperRan = 0 /\ ForwardedKey = 1

ParenLeftHandledByHelper ==
    /\ OnControl("keyPress")
    /\ ev.key = "Key_ParenLeft"
    /\ HelperRan = 1

\* C6: on a PageControlWidget key-press a slash while the widget is visible
\* emits show_find_widget once and is not forwarded; anything else is
\* forwarded to QTextEdit.keyPressEvent and emits nothing.
PageSlashOpensFind ==
    OnPage("keyPress") =>
        IF ev.key = "Key_Slash" /\ ev.visible
        THEN /\ Times(effects, Emit("show_find_widget", None)) = 1
             /\ ForwardedKey = 0
        ELSE /\ Times(effects, Emit("show_find_widget", None)) = 0
             /\ ForwardedKey = 1

PageSlashWhileVisible ==
    /\ OnPage("keyPress")
    /\ ev.key = "Key_Slash"
    /\ ev.visible
    /\ effects = <<Emit("show_find_widget", None)>>

\* C7: in both classes a focus-in or focus-out event emits focus_changed once
\* and then forwards the event to the base class; nothing else emits
\* focus_changed, so emissions and focus events stay equal in number.
FocusChangeNotified ==
    /\ ev.kind = "focusIn"
           => effects = <<Emit("focus_changed", None), Super("focusInEvent")>>
    /\ ev.kind = "focusOut"
           => effects = <<Emit("focus_changed", None), Super("focusOutEvent")>>
    /\ ~IsFocus(ev.kind) => TimesOp(effects, "emit", "focus_changed") = 0
    /\ focus_balance = 0

FocusInDelivered ==
    /\ OnControl("focusIn")
    /\ Times(effects, Emit("focus_changed", None)) = 1

\* C8: in both classes a show event emits visibility_changed(True) once and
\* is not forwarded to the base showEvent; visibility_changed(False) is
\* never emitted.
ShowNotifiesVisible ==
    /\ ev.kind = "show" =>
           /\ TimesOp(effects, "emit", "visibility_changed") = 1
           /\ Times(effects, Emit("visibility_changed", PyTrue)) = 1
           /\ Times(effects, Super("showEvent")) = 0
    /\ ev.kind # "show" => TimesOp(effects, "emit", "visibility_changed") = 0
    /\ Times(effects, Emit("visibility_changed", PyFalse)) = 0

ControlShown ==
    /\ OnControl("show")
    /\ effects = <<Emit("visibility_changed", PyTrue)>>

\* C9: when _key_paren_left runs it inserts the typed text once, as its last
\* step; it requests object help at most once, and only for a non-empty line
\* whose last object is non-empty and not a number; current_prompt_pos takes
\* the parent's _prompt_pos before the line is read.
ParenLeftHelper ==
    HelperRan > 0 =>
        /\ TimesOp(effects, "call", "insert_text") = 1
        /\ effects[Len(effects)] = Call("insert_text", ev.text)
        /\ HelpRequested <= 1
        /\ HelpRequested = 1 =>
               /\ Truthy(ev.line)
               /\ Truthy(ev.last_obj)
               /\ ~isdigit(ev.last_obj)
               /\ Times(effects, Call("show_object_info", ev.last_obj)) = 1
        /\ current_prompt_pos = ev.prompt_pos
        /\ \A i \in Position(effects, "call", "get_current_line_to_cursor") :
               \E j \in Position(effects, "set", "current_prompt_pos") : j < i

ParenLeftRequestedHelp ==
    /\ HelperRan = 1
    /\ HelpRequested = 1
    /\ current_prompt_pos = ev.prompt_pos

\* C10: the override cursors the widget has set and not yet restored (every
\* setOverrideCursor pushes, every restoreOverrideCursor on a non-empty stack
\* pops, so this is the depth of the stack) never number more than one, and
\* none is left after a mouse-move that hits no anchor.
OverrideCursorsBalanced ==
    /\ Len(override_cursors) <= 1
    /\ (OnControl("mouseMove") /\ ~Truthy(anchorAt(ev.pos)))
           => Len(override_cursors) = 0

====
